---- MODULE Spec2Model ----
(***************************************************************************)
(* Model of finance-detective: the investigate_finances pipeline           *)
(* (config -> gatherer -> analyzer -> report compiler) and the per-ticker  *)
(* indicator computation analyze_stock.                                    *)
(*                                                                         *)
(* Floating-point values are modelled in exact arithmetic extended with    *)
(* the IEEE-754 special values the code relies on: a value is NaN, +/-Inf  *)
(* or a finite rational.  Rounding and the sign of zero are not modelled.  *)
(***************************************************************************)
EXTENDS Integers, Sequences, FiniteSets, TLC

(***************************************************************************)
(* Floating-point values: [k, n, d] with k in {"nan", "inf", "fin"}.       *)
(* "fin": the rational n/d in lowest terms, d > 0.  "inf": n is the sign.  *)
(***************************************************************************)
RECURSIVE Gcd(_, _)
Gcd(a, b) == IF b = 0 THEN a ELSE Gcd(b, a % b)

Abs(x) == IF x < 0 THEN -x ELSE x

Sign(x) == IF x < 0 THEN -1 ELSE IF x = 0 THEN 0 ELSE 1

NaN == [k |-> "nan", n |-> 0, d |-> 0]

Inf(s) == [k |-> "inf", n |-> s, d |-> 0]

Rat(n, d) ==
    LET g == Gcd(Abs(n), Abs(d))
        s == IF d < 0 THEN -1 ELSE 1
    IN [k |-> "fin", n |-> s * (n \div g), d |-> s * (d \div g)]

Num(i) == [k |-> "fin", n |-> i, d |-> 1]

IsNaN(x) == x.k = "nan"

IsFin(x) == x.k = "fin"

FNeg(x) == IF x.k = "nan" THEN NaN ELSE [x EXCEPT !.n = -x.n]

FAdd(x, y) ==
    IF x.k = "nan" \/ y.k = "nan" THEN NaN
    ELSE IF x.k = "inf" /\ y.k = "inf" THEN (IF x.n = y.n THEN x ELSE NaN)
    ELSE IF x.k = "inf" THEN x
    ELSE IF y.k = "inf" THEN y
    ELSE Rat(x.n * y.d + y.n * x.d, x.d * y.d)

FSub(x, y) == FAdd(x, FNeg(y))

FMul(x, y) ==
    IF x.k = "nan" \/ y.k = "nan" THEN NaN
    ELSE IF x.k = "inf" \/ y.k = "inf"
         THEN (IF x.n = 0 \/ y.n = 0 THEN NaN ELSE Inf(Sign(x.n) * Sign(y.n)))
    ELSE Rat(x.n * y.n, x.d * y.d)

\* IEEE division as numpy performs it on float64 arrays: x/0 is +/-inf for
\* x # 0 and NaN for x = 0; no exception is raised.
FDiv(x, y) ==
    IF x.k = "nan" \/ y.k = "nan" THEN NaN
    ELSE IF x.k = "inf" /\ y.k = "inf" THEN NaN
    ELSE IF x.k = "inf" THEN Inf(IF y.n < 0 THEN -x.n ELSE x.n)
    ELSE IF y.k = "inf" THEN Num(0)
    ELSE IF y.n = 0 THEN (IF x.n = 0 THEN NaN ELSE Inf(Sign(x.n)))
    ELSE Rat(x.n * y.d, x.d * y.n)

FLess(x, y) == x.k = "fin" /\ y.k = "fin" /\ x.n * y.d < y.n * x.d

(***************************************************************************)
(* Series helpers (pandas semantics).  A series is a sequence indexed from *)
(* 1; bar i of the model is pandas position i-1.                           *)
(***************************************************************************)
RECURSIVE SumF(_, _, _)
\* sum of s[lo..hi]
SumF(s, lo, hi) == IF lo > hi THEN Num(0) ELSE FAdd(s[hi], SumF(s, lo, hi - 1))

\* Series.shift(n): the first n values are missing
Shift(s, n) == [i \in 1..Len(s) |-> IF i <= n THEN NaN ELSE s[i - n]]

\* Series.rolling(window=w).mean(): min_periods = w, a missing value in the
\* window makes the result missing
RollingMean(s, w) ==
    [i \in 1..Len(s) |->
        IF i < w \/ \E j \in (i - w + 1)..i : IsNaN(s[j]) THEN NaN
        ELSE FDiv(SumF(s, i - w + 1, i), Num(w))]

\* Series.rolling(window=w).var(): sample variance (ddof = 1)
RollingVar(s, w) ==
    [i \in 1..Len(s) |->
        IF i < w \/ \E j \in (i - w + 1)..i : IsNaN(s[j]) THEN NaN
        ELSE LET m  == FDiv(SumF(s, i - w + 1, i), Num(w))
                 sq == [j \in 1..Len(s) |->
                           IF j \in (i - w + 1)..i
                           THEN FMul(FSub(s[j], m), FSub(s[j], m)) ELSE Num(0)]
             IN FDiv(SumF(sq, i - w + 1, i), Num(w - 1))]

\* The defined (non-NaN) values of a series: Series.mean()/std() skip NaN
Defined(s) == {i \in 1..Len(s) : ~IsNaN(s[i])}

\* Series.mean() reduced to its sign class.  The exact mean of rationals
\* with unrelated denominators does not fit machine integers, so the mean
\* is kept as: "nan" (no defined value), "zero", "pos", "neg", or "fin"
\* (finite, sign not tracked, when the values have mixed signs).
MeanClass(s) ==
    LET D == Defined(s) IN
    IF D = {} THEN "nan"
    ELSE IF \E i \in D : s[i].k = "inf" THEN "fin"
    ELSE IF \A i \in D : s[i].n = 0 THEN "zero"
    ELSE IF \A i \in D : s[i].n >= 0 THEN "pos"
    ELSE IF \A i \in D : s[i].n <= 0 THEN "neg"
    ELSE "fin"

\* Series.std() (ddof = 1) reduced to its class: "nan" with fewer than two
\* defined values, "zero" when all defined values are equal, else "pos".
StdClass(s) ==
    LET D == Defined(s) IN
    IF Cardinality(D) < 2 THEN "nan"
    ELSE IF \A i, j \in D : s[i] = s[j] THEN "zero"
    ELSE "pos"

(***************************************************************************)
(* Values of the form mid + coef * sqrt(rad), for the Bollinger bands.     *)
(* A zero radicand is normalised to coef = 0.                              *)
(***************************************************************************)
SurdNaN == [k |-> "nan", mid |-> NaN, coef |-> 0, rad |-> NaN]

Surd(mid, coef, rad) ==
    IF IsNaN(mid) \/ IsNaN(rad) THEN SurdNaN
    ELSE IF rad.n = 0 \/ coef = 0
         THEN [k |-> "surd", mid |-> mid, coef |-> 0, rad |-> Num(0)]
    ELSE [k |-> "surd", mid |-> mid, coef |-> coef, rad |-> rad]

\* x - y for two values over the same radicand
SurdSub(x, y) ==
    IF x.k = "nan" \/ y.k = "nan" THEN SurdNaN
    ELSE Surd(FSub(x.mid, y.mid), x.coef - y.coef,
              IF x.coef # 0 THEN x.rad ELSE y.rad)

SurdIsRat(x, q) == x.k = "surd" /\ x.coef = 0 /\ x.mid = q

(***************************************************************************)
(* data_analyzer.py: the indicator engine.  price_data is a sequence of    *)
(* bars [Close, High, Low] with integer prices.                            *)
(***************************************************************************)
BBWindow == 20

RSIWindow == 14

ATRWindow == 14

ROCPeriods == 12

Close(price_data) == [i \in 1..Len(price_data) |-> Num(price_data[i].Close)]

High(price_data) == [i \in 1..Len(price_data) |-> Num(price_data[i].High)]

Low(price_data) == [i \in 1..Len(price_data) |-> Num(price_data[i].Low)]

\* the shift taken forwards: the close n bars ahead (Close.shift(-n))
calculate_roc_lookahead(price_data) ==
    LET c == Close(price_data)
        p == [i \in 1..Len(c) |-> IF i + ROCPeriods <= Len(c) THEN c[i + ROCPeriods] ELSE NaN]
    IN [i \in 1..Len(c) |-> FMul(FDiv(FSub(c[i], p[i]), p[i]), Num(100))]

\* calculate_roc: ((Close - Close.shift(n)) / Close.shift(n)) * 100
calculate_roc(price_data) ==
    LET c == Close(price_data)
        p == Shift(c, ROCPeriods)
    IN [i \in 1..Len(c) |-> FMul(FDiv(FSub(c[i], p[i]), p[i]), Num(100))]

\* Close.pct_change(): Close / Close.shift(1) - 1
DailyReturn(price_data) ==
    LET c == Close(price_data)
        p == Shift(c, 1)
    IN [i \in 1..Len(c) |-> FSub(FDiv(c[i], p[i]), Num(1))]

\* (avg_daily_return / volatility) * sqrt(trading_days), on the classes of
\* MeanClass and StdClass: 0/0 is NaN, x/0 is +/-inf, sqrt(N) > 0.
SharpeRatio(avg, vol) ==
    IF avg = "nan" \/ vol = "nan" THEN "nan"
    ELSE IF vol = "zero"
         THEN (IF avg = "zero" THEN "nan"
               ELSE IF avg = "pos" THEN "posinf"
               ELSE IF avg = "neg" THEN "neginf" ELSE "nan")
    ELSE avg

SMA20(price_data) == RollingMean(Close(price_data), BBWindow)

\* SMA20 + 2 * rolling std
UpperBand(price_data) ==
    LET m == SMA20(price_data)
        v == RollingVar(Close(price_data), BBWindow)
    IN [i \in 1..Len(price_data) |-> Surd(m[i], 2, v[i])]

\* SMA20 - 2 * rolling std
LowerBand(price_data) ==
    LET m == SMA20(price_data)
        v == RollingVar(Close(price_data), BBWindow)
    IN [i \in 1..Len(price_data) |-> Surd(m[i], -2, v[i])]

BB_Gap(price_data) ==
    LET u == UpperBand(price_data)
        l == LowerBand(price_data)
    IN [i \in 1..Len(price_data) |-> SurdSub(u[i], l[i])]

\* BB_Gap.mean() as a class: the gap is 4 * std >= 0 wherever defined
AvgBBGap(price_data) ==
    LET g == BB_Gap(price_data)
        D == {i \in 1..Len(g) : g[i].k # "nan"}
    IN IF D = {} THEN "nan"
       ELSE IF \A i \in D : g[i].coef = 0 THEN "zero" ELSE "pos"

\* delta = Close.diff()
Delta(price_data) ==
    LET c == Close(price_data)
        p == Shift(c, 1)
    IN [i \in 1..Len(c) |-> FSub(c[i], p[i])]

\* delta.where(delta > 0, 0).rolling(14).mean(): where() replaces every
\* value that does not satisfy the condition, the missing delta[0] included
Gain(price_data) ==
    LET dl == Delta(price_data)
        up == [i \in 1..Len(dl) |-> IF FLess(Num(0), dl[i]) THEN dl[i] ELSE Num(0)]
    IN RollingMean(up, RSIWindow)

\* (-delta.where(delta < 0, 0)).rolling(14).mean()
Loss(price_data) ==
    LET dl == Delta(price_data)
        dn == [i \in 1..Len(dl) |-> FNeg(IF FLess(dl[i], Num(0)) THEN dl[i] ELSE Num(0))]
    IN RollingMean(dn, RSIWindow)

\* an explicit policy in place of IEEE propagation: RS with a zero average
\* loss is treated as undefined
RSI_undefined(price_data) ==
    LET g == Gain(price_data)
        l == Loss(price_data)
    IN [i \in 1..Len(price_data) |->
          IF l[i].k = "fin" /\ l[i].n = 0 THEN NaN
          ELSE FSub(Num(100), FDiv(Num(100), FAdd(Num(1), FDiv(g[i], l[i]))))]

\* an explicit policy in place of IEEE propagation: a zero average loss
\* (0/0 included) is clamped to RSI = 100
RSI_clamped(price_data) ==
    LET g == Gain(price_data)
        l == Loss(price_data)
    IN [i \in 1..Len(price_data) |->
          IF l[i].k = "fin" /\ l[i].n = 0 THEN Num(100)
          ELSE FSub(Num(100), FDiv(Num(100), FAdd(Num(1), FDiv(g[i], l[i]))))]

\* rs = gain / loss;  RSI = 100 - (100 / (1 + rs))
RSI(price_data) ==
    LET g == Gain(price_data)
        l == Loss(price_data)
    IN [i \in 1..Len(price_data) |->
          FSub(Num(100), FDiv(Num(100), FAdd(Num(1), FDiv(g[i], l[i]))))]

FMax(x, y) == IF IsNaN(x) THEN y ELSE IF IsNaN(y) THEN x ELSE IF FLess(x, y) THEN y ELSE x

FAbs(x) == IF x.k = "fin" THEN [x EXCEPT !.n = Abs(x.n)] ELSE x

\* np.max over the three ranges, row by row (missing values are skipped)
TrueRange(price_data) ==
    LET pc == Shift(Close(price_data), 1)
        h  == High(price_data)
        l  == Low(price_data)
    IN [i \in 1..Len(price_data) |->
          FMax(FSub(h[i], l[i]),
               FMax(FAbs(FSub(h[i], pc[i])), FAbs(FSub(l[i], pc[i]))))]

ATR(price_data) == RollingMean(TrueRange(price_data), ATRWindow)

(***************************************************************************)
(* Exact arithmetic for the exponential moving averages.  An average of    *)
(* span s divides by s + 1 at every bar, so its value at bar t is an       *)
(* integer over a power of the bar index; the integers outgrow the machine *)
(* word and are kept as digit sequences (least significant digit first,    *)
(* no leading zero digit, zero is the empty sequence).                     *)
(***************************************************************************)
BigBase == 10000

RECURSIVE BigNorm(_)
BigNorm(a) ==
    IF a = <<>> THEN a
    ELSE IF a[Len(a)] = 0 THEN BigNorm(SubSeq(a, 1, Len(a) - 1)) ELSE a

RECURSIVE BigOfNat(_)
BigOfNat(n) == IF n = 0 THEN <<>> ELSE <<n % BigBase>> \o BigOfNat(n \div BigBase)

RECURSIVE BigAddC(_, _, _)
BigAddC(a, b, c) ==
    IF a = <<>> /\ b = <<>> THEN (IF c = 0 THEN <<>> ELSE <<c>>)
    ELSE LET x == IF a = <<>> THEN 0 ELSE Head(a)
             y == IF b = <<>> THEN 0 ELSE Head(b)
             s == x + y + c
         IN <<s % BigBase>> \o BigAddC(IF a = <<>> THEN a ELSE Tail(a),
                                       IF b = <<>> THEN b ELSE Tail(b), s \div BigBase)

BigAdd(a, b) == BigAddC(a, b, 0)

\* a - b - c for a >= b + c, not normalised
RECURSIVE BigSubC(_, _, _)
BigSubC(a, b, c) ==
    IF a = <<>> THEN <<>>
    ELSE LET y == IF b = <<>> THEN 0 ELSE Head(b)
             d == Head(a) - y - c
         IN <<IF d < 0 THEN d + BigBase ELSE d>>
              \o BigSubC(Tail(a), IF b = <<>> THEN b ELSE Tail(b), IF d < 0 THEN 1 ELSE 0)

BigSub(a, b) == BigNorm(BigSubC(a, b, 0))

RECURSIVE BigLess(_, _)
BigLess(a, b) ==
    IF Len(a) # Len(b) THEN Len(a) < Len(b)
    ELSE IF a = <<>> THEN FALSE
    ELSE IF a[Len(a)] # b[Len(b)] THEN a[Len(a)] < b[Len(b)]
    ELSE BigLess(BigNorm(SubSeq(a, 1, Len(a) - 1)), BigNorm(SubSeq(b, 1, Len(b) - 1)))

\* a * m + c for a small m
RECURSIVE BigMulC(_, _, _)
BigMulC(a, m, c) ==
    IF a = <<>> THEN BigOfNat(c)
    ELSE LET s == Head(a) * m + c
         IN <<s % BigBase>> \o BigMulC(Tail(a), m, s \div BigBase)

BigScale(a, m) == IF m = 0 THEN <<>> ELSE BigMulC(a, m, 0)

\* the quotient of r * BigBase^Len(a) + a by a small m, not normalised
RECURSIVE BigDivC(_, _, _)
BigDivC(a, m, r) ==
    IF a = <<>> THEN <<>>
    ELSE LET v == r * BigBase + a[Len(a)]
         IN Append(BigDivC(SubSeq(a, 1, Len(a) - 1), m, v % m), v \div m)

BigDiv(a, m) == BigNorm(BigDivC(a, m, 0))

\* signed integers: s is the sign, m the magnitude
Int0 == [s |-> 0, m |-> <<>>]

IntOf(n) == [s |-> Sign(n), m |-> BigOfNat(Abs(n))]

IntNeg(x) == [x EXCEPT !.s = 0 - x.s]

IntAdd(x, y) ==
    IF x.s = 0 THEN y
    ELSE IF y.s = 0 THEN x
    ELSE IF x.s = y.s THEN [s |-> x.s, m |-> BigAdd(x.m, y.m)]
    ELSE IF x.m = y.m THEN Int0
    ELSE IF BigLess(x.m, y.m) THEN [s |-> y.s, m |-> BigSub(y.m, x.m)]
    ELSE [s |-> x.s, m |-> BigSub(x.m, y.m)]

IntSub(x, y) == IntAdd(x, IntNeg(y))

\* x times a small positive m, and x over a small positive m that divides it
IntScale(x, m) == [x EXCEPT !.m = BigScale(x.m, m)]

IntDiv(x, m) == [x EXCEPT !.m = BigDiv(x.m, m)]

\* The weights 2/13, 2/27 and 2/10 of the three averages are multiples of
\* 1/ExactDen, so the value of every series at bar t (bars counted from 0)
\* is an integer over ExactDen^t: Exact(num, t) is num / ExactDen^t.
ExactDen == 3510

Exact(num, exp) == [num |-> num, exp |-> exp]

IsZero(x) == x.num.s = 0

\* ExactDen^0 .. ExactDen^(n-1)
RECURSIVE Powers(_)
Powers(n) ==
    IF n = 0 THEN <<>>
    ELSE IF n = 1 THEN << <<1>> >>
    ELSE LET prev == Powers(n - 1) IN Append(prev, BigScale(prev[n - 1], ExactDen))

ExactClose(price_data) ==
    LET pw == Powers(Len(price_data))
    IN [t \in 1..Len(price_data) |->
          Exact([s |-> Sign(price_data[t].Close),
                 m |-> BigScale(pw[t], Abs(price_data[t].Close))], t - 1)]

\* the two weights exchanged: alpha on the previous average, 1 - alpha on
\* the new value
RECURSIVE ewm_mean_swapped(_, _, _)
ewm_mean_swapped(x, span, n) ==
    IF n = 0 THEN <<>>
    ELSE IF n = 1 THEN << x[1] >>
    ELSE LET prev == ewm_mean_swapped(x, span, n - 1)
             cur  == IntScale(IntDiv(x[n].num, span + 1), span - 1)
             old  == IntScale(prev[n - 1].num, 2 * (ExactDen \div (span + 1)))
         IN Append(prev, Exact(IntAdd(cur, old), n - 1))

\* Series.ewm(span=span, adjust=False).mean() of the first n bars:
\*   y[0] = x[0],  y[t] = alpha * x[t] + (1 - alpha) * y[t-1],  alpha = 2 / (span + 1)
RECURSIVE ewm_mean(_, _, _)
ewm_mean(x, span, n) ==
    IF n = 0 THEN <<>>
    ELSE IF n = 1 THEN << x[1] >>
    ELSE LET prev == ewm_mean(x, span, n - 1)
             cur  == IntScale(IntDiv(x[n].num, span + 1), 2)
             old  == IntScale(prev[n - 1].num, (span - 1) * (ExactDen \div (span + 1)))
         IN Append(prev, Exact(IntAdd(cur, old), n - 1))

\* exp12 = Close.ewm(span=12, adjust=False).mean()
exp12(price_data) ==
    LET x == ExactClose(price_data) IN ewm_mean(x, 12, Len(x))

\* exp26 = Close.ewm(span=26, adjust=False).mean()
exp26(price_data) ==
    LET x == ExactClose(price_data) IN ewm_mean(x, 26, Len(x))

\* macd = exp12 - exp26
MACD(price_data) ==
    LET e12 == exp12(price_data)
        e26 == exp26(price_data)
    IN [t \in 1..Len(price_data) |-> Exact(IntSub(e12[t].num, e26[t].num), t - 1)]

\* signal = macd.ewm(span=9, adjust=False).mean()
Signal(macd) == ewm_mean(macd, 9, Len(macd))

Last(s) == s[Len(s)]

\* analyze_stock((stock, stock_data)) for a non-empty price_data.  The
\* means and the standard deviation of the returns are kept as classes.
analyze_stock(stock, price_data) ==
    LET dr  == DailyReturn(price_data)
        vol == StdClass(dr)
        avg == MeanClass(dr)
        roc == calculate_roc(price_data)
        ub  == UpperBand(price_data)
        lb  == LowerBand(price_data)
        rsi == RSI(price_data)
        macd   == MACD(price_data)
        signal == Signal(macd)
    IN << stock,
          [latest_price     |-> Last(Close(price_data)),
           volatility       |-> vol,
           avg_daily_return |-> avg,
           sharpe_ratio     |-> SharpeRatio(avg, vol),
           macd             |-> Last(macd),
           macd_signal      |-> Last(signal),
           upper_band       |-> Last(ub),
           lower_band       |-> Last(lb),
           avg_bb_gap       |-> AvgBBGap(price_data),
           rsi              |-> Last(rsi),
           atr              |-> Last(ATR(price_data)),
           avg_roc          |-> MeanClass(roc),
           latest_roc       |-> Last(roc),
           price_data       |-> [Close       |-> Close(price_data),
                                 DailyReturn |-> dr,
                                 RSI         |-> rsi,
                                 UpperBand   |-> ub,
                                 LowerBand   |-> lb,
                                 ROC         |-> roc],
           macd_data        |-> [MACD |-> macd, Signal |-> signal]] >>

(***************************************************************************)
(* Bounds and input domains of the model.                                  *)
(***************************************************************************)
MaxStocks == 2

MaxBars == 22

\* "complete" is a legal symbol whose per-ticker PDF name coincides with
\* the merged report's name
Tickers == {"A", "B", "complete"}

Bar(c, spread) == [Close |-> c, High |-> c + spread, Low |-> c - spread]

\* price histories the provider may return in a pipeline run
SampleSeries == { <<Bar(5, 1)>>, <<Bar(4, 0), Bar(6, 1)>> }

StockLists == UNION {[1..n -> Tickers] : n \in 1..MaxStocks}

StocksValues ==
    {[kind |-> "missing", items |-> <<>>], [kind |-> "scalar", items |-> <<>>],
     [kind |-> "list", items |-> <<>>]}
    \cup {[kind |-> "list", items |-> l] : l \in StockLists}

\* "MISSING": the key is absent; "NONE": the key is present with an empty value
DateValues == {"MISSING", "NONE", "2024-01-01"}

FormatValues == {"MISSING", "pdf", "txt", "html"}

\* config.yaml as yaml.safe_load returns it.  file = "yaml_error": the
\* parser raises; file = "empty": an empty document (config is None).
ConfigFiles ==
    [file : {"ok"}, stocks : StocksValues, start_date : DateValues,
     end_date : DateValues, report_format : FormatValues]
    \cup [file : {"yaml_error", "empty"}, stocks : {[kind |-> "missing", items |-> <<>>]},
          start_date : {"MISSING"}, end_date : {"MISSING"}, report_format : {"MISSING"}]

(***************************************************************************)
(* Dictionaries (insertion-ordered, unique keys) as sequences of           *)
(* <<key, value>> pairs.                                                   *)
(***************************************************************************)
Keys(d) == {d[j][1] : j \in DOMAIN d}

DictSet(d, key, v) ==
    IF \E j \in DOMAIN d : d[j][1] = key
    THEN [j \in DOMAIN d |-> IF d[j][1] = key THEN <<key, v>> ELSE d[j]]
    ELSE Append(d, <<key, v>>)

DictGet(d, key) == d[CHOOSE j \in DOMAIN d : d[j][1] = key][2]

Range(s) == {s[j] : j \in DOMAIN s}

VARIABLES
    pc,              \* position of investigate_finances
    config,          \* the content of config.yaml
    case_details,    \* main.py: the loaded configuration, dates defaulted
    calls,           \* the stage functions investigate_finances has called
    completed,       \* the stage functions that returned without raising
    error,           \* the exception caught at main.py:67 ("" if none)
    returned,        \* the return value of investigate_finances
    i,               \* collect_evidence: index of the next stock
    evidence_locker, \* collect_evidence: the result under construction
    fetch_log,       \* collect_evidence: <<stock, outcome>> of each fetch so far
    raw_evidence,    \* main.py: the gathered evidence
    results,         \* analyze_clues: pool.map's result slots, one per task
    finish_order,    \* analyze_clues: task indices in order of completion
    analyzed_clues,  \* main.py: the AnalysisSet
    files,           \* the files in the working directory
    pdf_files,       \* _generate_pdf_report: per-ticker PDFs written
    temp_files,      \* _generate_pdf_report: chart images registered
    pdf_pages,       \* content of the per-ticker PDFs, aligned with pdf_files
    merged_pdf,      \* content of the merged PDF: the documents appended
    output_file,     \* compile_case_file's reported output file
    remove_failed,   \* an os.remove of _cleanup_temp_files raised
    price_data,      \* indicator engine: the input series
    apc,             \* indicator engine: "input", "done" or "both"
    indicators,      \* indicator engine: analyze_stock's result
    other_data,      \* indicator engine: a second input series
    other_indicators \* indicator engine: analyze_stock's result on other_data

vars == << pc, config, case_details, calls, completed, error, returned, i,
           evidence_locker, fetch_log, raw_evidence, results, finish_order,
           analyzed_clues, files, pdf_files, temp_files, pdf_pages, merged_pdf,
           output_file, remove_failed, price_data, apc, indicators, other_data,
           other_indicators >>

runVars == << pc, config, case_details, calls, completed, error, returned, i,
              evidence_locker, fetch_log, raw_evidence, results, finish_order,
              analyzed_clues, files, pdf_files, temp_files, pdf_pages,
              merged_pdf, output_file, remove_failed >>

engineVars == << price_data, apc, indicators, other_data, other_indicators >>

(***************************************************************************)
(* config.py                                                               *)
(***************************************************************************)
Raise(e) == [ok |-> FALSE, err |-> e]

Return == [ok |-> TRUE, err |-> ""]

\* the check of report_format is missing
validate_config_noformat(cfg) ==
    IF cfg.file = "empty" THEN Raise("TypeError")
    ELSE IF cfg.stocks.kind = "missing" THEN Raise("Missing required configuration key: stocks")
    ELSE IF cfg.start_date = "MISSING" THEN Raise("Missing required configuration key: start_date")
    ELSE IF cfg.end_date = "MISSING" THEN Raise("Missing required configuration key: end_date")
    ELSE IF cfg.report_format = "MISSING" THEN Raise("Missing required configuration key: report_format")
    ELSE IF cfg.stocks.kind # "list" \/ Len(cfg.stocks.items) = 0
         THEN Raise("'stocks' must be a non-empty list")
    ELSE Return

validate_config(cfg) ==
    IF cfg.file = "empty" THEN Raise("TypeError")
    ELSE IF cfg.stocks.kind = "missing" THEN Raise("Missing required configuration key: stocks")
    ELSE IF cfg.start_date = "MISSING" THEN Raise("Missing required configuration key: start_date")
    ELSE IF cfg.end_date = "MISSING" THEN Raise("Missing required configuration key: end_date")
    ELSE IF cfg.report_format = "MISSING" THEN Raise("Missing required configuration key: report_format")
    ELSE IF cfg.stocks.kind # "list" \/ Len(cfg.stocks.items) = 0
         THEN Raise("'stocks' must be a non-empty list")
    ELSE IF cfg.report_format \notin {"pdf", "txt"}
         THEN Raise("'report_format' must be either 'pdf' or 'txt'")
    ELSE Return

\* load_config: parse, validate, re-raise every error.  (The retry over
\* encodings only changes how the bytes are decoded.)
load_config(cfg) ==
    IF cfg.file = "yaml_error" THEN Raise("YAMLError") ELSE validate_config(cfg)

\* main.py:30-37
DefaultDates(cfg) ==
    [stocks        |-> cfg.stocks.items,
     start_date    |-> IF cfg.start_date \in {"MISSING", "NONE"} THEN "ONE_YEAR_AGO" ELSE cfg.start_date,
     end_date      |-> IF cfg.end_date \in {"MISSING", "NONE"} THEN "TODAY" ELSE cfg.end_date,
     report_format |-> cfg.report_format]

NoDetails == [stocks |-> <<>>, start_date |-> "", end_date |-> "", report_format |-> ""]

NoFile == <<"none", "">>

(***************************************************************************)
(* main.py: investigate_finances.  Every exception raised by a stage is    *)
(* caught at line 67, logged, and turned into the return value False.      *)
(***************************************************************************)
Fail(e) ==
    /\ pc' = "done"
    /\ error' = e
    /\ returned' = "False"

Init ==
    /\ pc = "load"
    /\ config \in ConfigFiles
    /\ case_details = NoDetails
    /\ calls = {}
    /\ completed = {}
    /\ error = ""
    /\ returned = "none"
    /\ i = 1
    /\ evidence_locker = <<>>
    /\ fetch_log = <<>>
    /\ raw_evidence = <<>>
    /\ results = <<>>
    /\ finish_order = <<>>
    /\ analyzed_clues = <<>>
    /\ files = {}
    /\ pdf_files = <<>>
    /\ temp_files = <<>>
    /\ pdf_pages = <<>>
    /\ merged_pdf = <<>>
    /\ output_file = NoFile
    /\ remove_failed = FALSE
    /\ price_data = <<>>
    /\ apc = "off"
    /\ indicators = <<>>
    /\ other_data = <<>>
    /\ other_indicators = <<>>

\* main.py:25-40: load and validate the configuration, default the dates,
\* call collect_evidence
ReviewCaseFile ==
    /\ pc = "load"
    /\ LET r == load_config(config) IN
         IF r.ok
         THEN /\ case_details' = DefaultDates(config)
              /\ calls' = {"load_config", "collect_evidence"}
              /\ completed' = {"load_config"}
              /\ pc' = "gather"
              /\ UNCHANGED << error, returned >>
         ELSE /\ Fail(r.err)
              /\ calls' = {"load_config"}
              /\ UNCHANGED << case_details, completed >>
    /\ UNCHANGED << config, i, evidence_locker, fetch_log, raw_evidence, results,
                    finish_order, analyzed_clues, files, pdf_files, temp_files,
                    pdf_pages, merged_pdf, output_file, remove_failed, engineVars >>

(***************************************************************************)
(* data_gatherer.py: collect_evidence                                      *)
(***************************************************************************)
\* What one pass of the loop body can do for a stock:
\*   "data"        history() returns rows, the news is read and filtered
\*   "empty"       history() returns no rows (ValueError raised at line 36)
\*   "fetch_error" history() raises (YFException, RequestException, ...)
\*   "news_error"  history() returns rows, ticker.news or the news filter raises
FetchOutcomes == {"data", "empty", "fetch_error", "news_error"}

\* the evidence is stored before the news is read
store_evidence_early(locker, stock, outcome, data) ==
    IF outcome \in {"data", "news_error"} THEN DictSet(locker, stock, data) ELSE locker

\* lines 27-63: the assignment at line 50 is reached only if nothing in
\* the try block raised; every exception is caught and logged
store_evidence(locker, stock, outcome, data) ==
    IF outcome = "data" THEN DictSet(locker, stock, data) ELSE locker

\* lines 25-63: one pass of the loop over stocks
Investigate ==
    /\ pc = "gather"
    /\ i <= Len(case_details.stocks)
    /\ \E outcome \in FetchOutcomes, data \in SampleSeries :
         LET stock == case_details.stocks[i] IN
         /\ evidence_locker' = store_evidence(evidence_locker, stock, outcome, data)
         /\ fetch_log' = Append(fetch_log, <<stock, outcome>>)
    /\ i' = i + 1
    /\ UNCHANGED << pc, config, case_details, calls, completed, error, returned,
                    raw_evidence, results, finish_order, analyzed_clues, files,
                    pdf_files, temp_files, pdf_pages, merged_pdf, output_file,
                    remove_failed, engineVars >>

\* lines 65-68, main.py:40-41
ReturnEvidence ==
    /\ pc = "gather"
    /\ i > Len(case_details.stocks)
    /\ IF evidence_locker = <<>>
       THEN /\ Fail("No data could be retrieved for any of the stocks.")
            /\ UNCHANGED << raw_evidence, completed >>
       ELSE /\ raw_evidence' = evidence_locker
            /\ completed' = completed \cup {"collect_evidence"}
            /\ pc' = "gathered"
            /\ UNCHANGED << error, returned >>
    /\ UNCHANGED << config, case_details, calls, i, evidence_locker, fetch_log,
                    results, finish_order, analyzed_clues, files, pdf_files,
                    temp_files, pdf_pages, merged_pdf, output_file, remove_failed,
                    engineVars >>

(***************************************************************************)
(* data_analyzer.py: analyze_clues                                         *)
(***************************************************************************)
Pending == [st |-> "pending", val |-> <<>>]

\* main.py:44, data_analyzer.py:116-118: the pool is created and one task
\* per item of the evidence is submitted
StartAnalysis ==
    /\ pc = "gathered"
    /\ pc' = "analyze"
    /\ calls' = calls \cup {"analyze_clues"}
    /\ results' = [j \in 1..Len(raw_evidence) |-> Pending]
    /\ finish_order' = <<>>
    /\ evidence_locker' = <<>>
    /\ fetch_log' = <<>>
    /\ i' = 1
    /\ UNCHANGED << config, case_details, completed, error, returned, raw_evidence,
                    analyzed_clues, files, pdf_files, temp_files, pdf_pages,
                    merged_pdf, output_file, remove_failed, engineVars >>

\* a worker finishes task j: analyze_stock returns, or raises
WorkerDone ==
    /\ pc = "analyze"
    /\ \E j \in DOMAIN results, ok \in BOOLEAN :
         /\ results[j].st = "pending"
         /\ results' = [results EXCEPT ![j] =
               IF ok THEN [st |-> "ok",
                           val |-> analyze_stock(raw_evidence[j][1], raw_evidence[j][2])]
               ELSE [st |-> "error", val |-> <<>>]]
         /\ finish_order' = Append(finish_order, j)
    /\ UNCHANGED << pc, config, case_details, calls, completed, error, returned, i,
                    evidence_locker, fetch_log, raw_evidence, analyzed_clues, files,
                    pdf_files, temp_files, pdf_pages, merged_pdf, output_file,
                    remove_failed, engineVars >>

\* the results are taken in order of completion and paired with the keys
\* of the evidence (imap_unordered zipped with evidence.keys())
pool_map_unordered(evidence, res, order) ==
    [r \in 1..Len(res) |-> << evidence[r][1], res[order[r]].val[2] >>]

\* Pool.map: the list of the tasks' return values, in the order of the
\* tasks, whatever the order of completion
pool_map(evidence, res, order) == [j \in 1..Len(res) |-> res[j].val]

RECURSIVE MergeResults(_)
\* lines 120-122: for stock, result in results: analyzed_data[stock] = result
MergeResults(rs) ==
    IF rs = <<>> THEN <<>>
    ELSE DictSet(MergeResults(SubSeq(rs, 1, Len(rs) - 1)), rs[Len(rs)][1], rs[Len(rs)][2])

\* lines 117-124, main.py:44-45: pool.map returns when every task is done
\* and re-raises a worker's exception
MergeClues ==
    /\ pc = "analyze"
    /\ \A j \in DOMAIN results : results[j].st # "pending"
    /\ IF \E j \in DOMAIN results : results[j].st = "error"
       THEN /\ Fail("analyze_stock raised")
            /\ UNCHANGED << analyzed_clues, completed >>
       ELSE /\ analyzed_clues' = MergeResults(pool_map(raw_evidence, results, finish_order))
            /\ completed' = completed \cup {"analyze_clues"}
            /\ pc' = "analyzed"
            /\ UNCHANGED << error, returned >>
    /\ UNCHANGED << config, case_details, calls, i, evidence_locker, fetch_log,
                    raw_evidence, results, finish_order, files, pdf_files,
                    temp_files, pdf_pages, merged_pdf, output_file, remove_failed,
                    engineVars >>

(***************************************************************************)
(* report_compiler.py                                                      *)
(***************************************************************************)
PdfFile(stock) == <<"financial_case_file_.pdf", stock>>

MergedPdf == PdfFile("complete")

PriceChart(stock) == <<"_price_bb_rsi_chart.png", stock>>

MacdChart(stock) == <<"_macd_chart.png", stock>>

TxtFile == <<"financial_case_file.txt", "">>

\* main.py:48, report_compiler.py:23-31: dispatch on the report format
CompileCaseFile ==
    /\ pc = "analyzed"
    /\ calls' = calls \cup {"compile_case_file"}
    /\ results' = <<>>
    /\ finish_order' = <<>>
    /\ i' = 1
    /\ IF case_details.report_format = "pdf"
       THEN pc' = "pdf" /\ UNCHANGED << error, returned >>
       ELSE IF case_details.report_format = "txt"
       THEN pc' = "txt" /\ UNCHANGED << error, returned >>
       ELSE Fail("Unsupported report format")
    /\ UNCHANGED << config, case_details, completed, evidence_locker, fetch_log,
                    raw_evidence, analyzed_clues, files, pdf_files, temp_files,
                    pdf_pages, merged_pdf, output_file, remove_failed, engineVars >>

\* Where chart generation for one stock can raise:
\*   "plot1_fails"  lines 178-195, before the first image is saved
\*   "image1_fails" line 198, the first image is saved and pdf.image raises
\*   "plot2_fails"  lines 202-214, before the second image is saved
\*   "image2_fails" line 217, the second image is saved and pdf.image raises
ChartOutcomes == {"ok", "plot1_fails", "image1_fails", "plot2_fails", "image2_fails"}

ChartEffect(stock, outcome) ==
    [written    |-> IF outcome = "plot1_fails" THEN {}
                    ELSE IF outcome \in {"image1_fails", "plot2_fails"}
                    THEN {PriceChart(stock)}
                    ELSE {PriceChart(stock), MacdChart(stock)},
     registered |-> IF outcome \in {"plot1_fails", "image1_fails"} THEN <<>>
                    ELSE IF outcome \in {"plot2_fails", "image2_fails"}
                    THEN <<PriceChart(stock)>>
                    ELSE <<PriceChart(stock), MacdChart(stock)>>,
     images     |-> IF outcome \in {"plot1_fails", "image1_fails"} THEN 0
                    ELSE IF outcome \in {"plot2_fails", "image2_fails"} THEN 1
                    ELSE 2]

\* the try/except of lines 176-222 is missing: the exception propagates
add_charts_to_pdf_uncaught(stock, outcome) ==
    [raised |-> outcome # "ok", note |-> FALSE, eff |-> ChartEffect(stock, outcome)]

\* _add_charts_to_pdf: an exception is caught at line 220 and the page gets
\* the note "Error generating charts: ..."
add_charts_to_pdf(stock, outcome) ==
    [raised |-> FALSE, note |-> outcome # "ok", eff |-> ChartEffect(stock, outcome)]

\* _generate_pdf_report, lines 47-69: one pass of the loop over the
\* AnalysisSet.  (FPDF.output is taken to succeed.)
StockReport ==
    /\ pc = "pdf"
    /\ i <= Len(analyzed_clues)
    /\ \E outcome \in ChartOutcomes :
         LET stock == analyzed_clues[i][1]
             ch    == add_charts_to_pdf(stock, outcome)
         IN IF ch.raised
            THEN /\ Fail("chart generation raised")
                 /\ files' = files \cup ch.eff.written
                 /\ UNCHANGED << i, pdf_files, temp_files, pdf_pages >>
            ELSE /\ files' = files \cup ch.eff.written \cup {PdfFile(stock)}
                 /\ temp_files' = temp_files \o ch.eff.registered
                 /\ pdf_files' = Append(pdf_files, PdfFile(stock))
                 /\ pdf_pages' = Append(pdf_pages,
                       [stock |-> stock, chart |-> outcome,
                        images |-> ch.eff.images, note |-> ch.note])
                 /\ i' = i + 1
                 /\ UNCHANGED << pc, error, returned >>
    /\ UNCHANGED << config, case_details, calls, completed, evidence_locker,
                    fetch_log, raw_evidence, results, finish_order, analyzed_clues,
                    merged_pdf, output_file, remove_failed, engineVars >>

\* _cleanup_temp_files: os.remove every listed file; a failing removal is
\* logged and the file stays
cleanup_temp_files(fs, listed, failing) == fs \ (Range(listed) \ {failing})

\* lines 71-78: merge the per-ticker PDFs, clean up, return.  The merge may
\* raise (PdfMerger error, merged file missing); at most one removal fails.
MergePdf ==
    /\ pc = "pdf"
    /\ i > Len(analyzed_clues)
    /\ \E merge_ok \in BOOLEAN, failing \in {NoFile} \cup Range(pdf_files \o temp_files) :
         IF merge_ok
         THEN /\ merged_pdf' = pdf_pages
              /\ files' = cleanup_temp_files(files \cup {MergedPdf},
                                             pdf_files \o temp_files, failing)
              /\ remove_failed' = (failing # NoFile)
              /\ output_file' = MergedPdf
              /\ completed' = completed \cup {"compile_case_file"}
              /\ pc' = "compiled"
              /\ UNCHANGED << error, returned >>
         ELSE /\ failing = NoFile
              /\ Fail("merging the PDF files raised")
              /\ UNCHANGED << merged_pdf, files, remove_failed, output_file, completed >>
    /\ UNCHANGED << config, case_details, calls, i, evidence_locker, fetch_log,
                    raw_evidence, results, finish_order, analyzed_clues, pdf_files,
                    temp_files, pdf_pages, engineVars >>

\* _generate_txt_report: the file is opened for writing, or open() raises
GenerateTxtReport ==
    /\ pc = "txt"
    /\ \E ok \in BOOLEAN :
         IF ok
         THEN /\ files' = files \cup {TxtFile}
              /\ output_file' = TxtFile
              /\ completed' = completed \cup {"compile_case_file"}
              /\ pc' = "compiled"
              /\ UNCHANGED << error, returned >>
         ELSE /\ Fail("writing the text report raised")
              /\ UNCHANGED << files, output_file, completed >>
    /\ UNCHANGED << config, case_details, calls, i, evidence_locker, fetch_log,
                    raw_evidence, results, finish_order, analyzed_clues, pdf_files,
                    temp_files, pdf_pages, merged_pdf, remove_failed, engineVars >>

\* the check of main.py:52 is missing
output_exists_unchecked(fs, f) == TRUE

\* main.py:52: os.path.exists(output_files['output_file'])
output_exists(fs, f) == f \in fs

\* main.py:49-65: verify the output file; the list of temporary files the
\* compiler returns is always empty, so step 6 removes nothing
VerifyOutput ==
    /\ pc = "compiled"
    /\ IF output_exists(files, output_file)
       THEN /\ pc' = "done"
            /\ returned' = "True"
            /\ UNCHANGED error
       ELSE Fail("Output file not found")
    /\ UNCHANGED << config, case_details, calls, completed, i, evidence_locker,
                    fetch_log, raw_evidence, results, finish_order, analyzed_clues,
                    files, pdf_files, temp_files, pdf_pages, merged_pdf,
                    output_file, remove_failed, engineVars >>

Next ==
    \/ ReviewCaseFile
    \/ Investigate
    \/ ReturnEvidence
    \/ StartAnalysis
    \/ WorkerDone
    \/ MergeClues
    \/ CompileCaseFile
    \/ StockReport
    \/ MergePdf
    \/ GenerateTxtReport
    \/ VerifyOutput

Spec == Init /\ [][Next]_vars

(***************************************************************************)
(* The indicator engine on its own: analyze_stock applied to one series    *)
(* drawn from a bounded family.                                            *)
(***************************************************************************)
\* first close and half the high-low range of a series
StartBars == {<<3, 1>>, <<30, 2>>}

Steps == {-1, 0, 1, 2}

\* closes start at p0, move by s1 per bar for the first k steps and by s2
\* per bar afterwards
SeriesOf(n, sb, s1, s2, k) ==
    [t \in 1..n |->
        Bar(sb[1] + s1 * (IF t - 1 < k THEN t - 1 ELSE k)
                  + s2 * (IF t - 1 < k THEN 0 ELSE t - 1 - k), sb[2])]

SeriesOfLength(n) ==
    { SeriesOf(n, sb, s1, s2, k) :
        sb \in StartBars, s1 \in Steps, s2 \in Steps, k \in 0..(n - 1) }

InputSeries ==
    { s \in UNION {SeriesOfLength(n) : n \in 1..MaxBars} :
        \A t \in DOMAIN s : s[t].Low >= 1 }

InitEngine ==
    /\ pc = "off"
    /\ config = [file |-> "empty", stocks |-> [kind |-> "missing", items |-> <<>>],
                 start_date |-> "MISSING", end_date |-> "MISSING",
                 report_format |-> "MISSING"]
    /\ case_details = NoDetails
    /\ calls = {}
    /\ completed = {}
    /\ error = ""
    /\ returned = "none"
    /\ i = 1
    /\ evidence_locker = <<>>
    /\ fetch_log = <<>>
    /\ raw_evidence = <<>>
    /\ results = <<>>
    /\ finish_order = <<>>
    /\ analyzed_clues = <<>>
    /\ files = {}
    /\ pdf_files = <<>>
    /\ temp_files = <<>>
    /\ pdf_pages = <<>>
    /\ merged_pdf = <<>>
    /\ output_file = NoFile
    /\ remove_failed = FALSE
    /\ price_data \in InputSeries
    /\ apc = "input"
    /\ indicators = <<>>
    /\ other_data = <<>>
    /\ other_indicators = <<>>

\* analyze_stock on the input series
AnalyzeStock ==
    /\ apc = "input"
    /\ indicators' = analyze_stock("T", price_data)[2]
    /\ apc' = "done"
    /\ UNCHANGED << price_data, other_data, other_indicators, runVars >>

NextEngine == AnalyzeStock

SpecEngine == InitEngine /\ [][NextEngine]_vars

(***************************************************************************)
(* The indicator engine on two series: analyze_stock is run on each of two *)
(* price series that share a first stretch of bars and part afterwards.    *)
(***************************************************************************)
\* the steps of the two series after their common stretch
Forks == {<<-1, 1>>, <<0, 2>>, <<1, 0>>}

SeriesPairs ==
    { p \in { << SeriesOf(MaxBars, sb, s1, f[1], k), SeriesOf(n, sb, s1, f[2], k) >> :
                sb \in StartBars, s1 \in Steps, f \in Forks,
                k \in 0..(MaxBars - 1), n \in {MaxBars - 1, MaxBars} } :
        \A j \in 1..2 : \A t \in DOMAIN p[j] : p[j][t].Low >= 1 }

InitPair ==
    /\ pc = "off"
    /\ config = [file |-> "empty", stocks |-> [kind |-> "missing", items |-> <<>>],
                 start_date |-> "MISSING", end_date |-> "MISSING",
                 report_format |-> "MISSING"]
    /\ case_details = NoDetails
    /\ calls = {}
    /\ completed = {}
    /\ error = ""
    /\ returned = "none"
    /\ i = 1
    /\ evidence_locker = <<>>
    /\ fetch_log = <<>>
    /\ raw_evidence = <<>>
    /\ results = <<>>
    /\ finish_order = <<>>
    /\ analyzed_clues = <<>>
    /\ files = {}
    /\ pdf_files = <<>>
    /\ temp_files = <<>>
    /\ pdf_pages = <<>>
    /\ merged_pdf = <<>>
    /\ output_file = NoFile
    /\ remove_failed = FALSE
    /\ \E p \in SeriesPairs : price_data = p[1] /\ other_data = p[2]
    /\ apc = "input"
    /\ indicators = <<>>
    /\ other_indicators = <<>>

\* analyze_stock on the second series, after the first
AnalyzeOther ==
    /\ apc = "done"
    /\ other_data # <<>>
    /\ other_indicators' = analyze_stock("U", other_data)[2]
    /\ apc' = "both"
    /\ UNCHANGED << price_data, indicators, other_data, runVars >>

NextPair == AnalyzeStock \/ AnalyzeOther

SpecPair == InitPair /\ [][NextPair]_vars

(***************************************************************************)
(* Properties of collect_evidence                                          *)
(***************************************************************************)
NoDataError == "No data could be retrieved for any of the stocks."

\* the stocks for which a pass through the loop body returned non-empty
\* price data and raised nowhere
Succeeded(log) == {log[j][1] : j \in {m \in DOMAIN log : log[m][2] = "data"}}

InGatherer == pc \in {"gather", "gathered"} \/ error = NoDataError

\* C1: the keys of the mapping are exactly the tickers whose fetch (the
\* try block of the loop body: the price history, then the news) returned
\* non-empty price data without raising; every ticker of the list is
\* fetched, in order, whatever happened to the ones before it; and
\* collect_evidence raises exactly when no ticker yielded data.
C1_FaultIsolation ==
    /\ InGatherer =>
         /\ Keys(evidence_locker) = Succeeded(fetch_log)
         /\ [j \in DOMAIN fetch_log |-> fetch_log[j][1]]
              = SubSeq(case_details.stocks, 1, i - 1)
    /\ pc = "gathered" =>
         /\ Len(fetch_log) = Len(case_details.stocks)
         /\ Succeeded(fetch_log) # {}
         /\ Keys(raw_evidence) = Succeeded(fetch_log)
    /\ error = NoDataError =>
         /\ Len(fetch_log) = Len(case_details.stocks)
         /\ Succeeded(fetch_log) = {}
         /\ "collect_evidence" \notin completed

\* C1 witness: collect_evidence has returned a mapping after a ticker
\* whose fetch raised while reading the news, and which is absent from
\* the mapping, was followed by a ticker that yielded data
C1_Witness ==
    /\ pc = "gathered"
    /\ \E j, m \in DOMAIN fetch_log :
         /\ j < m
         /\ fetch_log[j][2] = "news_error"
         /\ fetch_log[m][2] = "data"
         /\ fetch_log[j][1] \notin Keys(raw_evidence)

(***************************************************************************)
(* Properties of analyze_clues                                             *)
(***************************************************************************)
\* C2, as stated: when analyze_stock fails for one ticker of several,
\* analyze_clues does not abort; it returns the results of the other
\* tickers, without the failing one, and the run goes on to compile_case_file.
C2_AsClaimed ==
    ( /\ pc # "analyze"
      /\ \E j \in DOMAIN results : results[j].st = "error"
      /\ \E j \in DOMAIN results : results[j].st = "ok" )
    => /\ error # "analyze_stock raised"
       /\ Keys(analyzed_clues)
            = {raw_evidence[j][1] : j \in {m \in DOMAIN results : results[m].st = "ok"}}
       /\ "analyze_clues" \in completed

\* C8: whatever the order in which the workers finish, when no worker
\* fails the AnalysisSet analyze_clues returns has exactly the keys of the
\* evidence and each ticker's entry is the result computed from that
\* ticker's own series.
C8_OrderIndependent ==
    pc = "analyzed" =>
        /\ Keys(analyzed_clues) = Keys(raw_evidence)
        /\ Len(analyzed_clues) = Len(raw_evidence)
        /\ \A j \in DOMAIN raw_evidence :
             DictGet(analyzed_clues, raw_evidence[j][1])
               = analyze_stock(raw_evidence[j][1], raw_evidence[j][2])[2]

\* C8 witness: analyze_clues has returned although the second task
\* finished before the first, the two tickers having different series
C8_Witness ==
    /\ pc = "analyzed"
    /\ Len(finish_order) >= 2
    /\ finish_order[1] # 1
    /\ raw_evidence[1][2] # raw_evidence[2][2]

(***************************************************************************)
(* Properties of the configuration handling                                *)
(***************************************************************************)
StocksAndFormatValid(cfg) ==
    /\ cfg.file = "ok"
    /\ cfg.stocks.kind = "list"
    /\ cfg.stocks.items # <<>>
    /\ cfg.report_format \in {"pdf", "txt"}

\* C3, as stated: a configuration with valid stocks and report_format that
\* omits start_date and/or end_date is accepted; the run proceeds to the
\* gathering with the omitted dates defaulted.
C3_AsClaimed ==
    ( /\ StocksAndFormatValid(config)
      /\ config.start_date = "MISSING" \/ config.end_date = "MISSING"
      /\ pc # "load" )
    => /\ "collect_evidence" \in calls
       /\ config.end_date = "MISSING" => case_details.end_date = "TODAY"
       /\ config.start_date = "MISSING" => case_details.start_date = "ONE_YEAR_AGO"

\* the configurations C4 calls invalid
InvalidConfig(cfg) ==
    /\ cfg.file = "ok"
    /\ \/ cfg.stocks.kind = "missing"
       \/ cfg.start_date = "MISSING"
       \/ cfg.end_date = "MISSING"
       \/ cfg.report_format = "MISSING"
       \/ cfg.stocks.kind # "list"
       \/ cfg.stocks.items = <<>>
       \/ cfg.report_format \notin {"pdf", "txt"}

\* C4: in a run whose configuration is invalid no fetch is ever started,
\* no analysis and no report file is produced, and the run returns False.
C4_InvalidConfigAborts ==
    InvalidConfig(config) =>
        /\ pc \in {"load", "done"}
        /\ calls \subseteq {"load_config"}
        /\ fetch_log = <<>>
        /\ evidence_locker = <<>>
        /\ raw_evidence = <<>>
        /\ results = <<>>
        /\ analyzed_clues = <<>>
        /\ files = {}
        /\ output_file = NoFile
        /\ pc = "done" => returned = "False"

\* C4 witness: a run with an unsupported report format has ended
C4_Witness ==
    /\ InvalidConfig(config)
    /\ StocksAndFormatValid([config EXCEPT !.report_format = "pdf"])
    /\ config.start_date # "MISSING"
    /\ config.end_date # "MISSING"
    /\ pc = "done"
    /\ returned = "False"

(***************************************************************************)
(* Properties of investigate_finances                                      *)
(***************************************************************************)
AllStages == {"load_config", "collect_evidence", "analyze_clues", "compile_case_file"}

\* C5: investigate_finances always ends by returning a boolean: True
\* exactly when all four stages completed without raising and the
\* reported output file exists afterwards, False in every other case.
C5_ReturnValue ==
    /\ pc # "done" => returned = "none" /\ ENABLED Next
    /\ pc = "done" =>
         /\ returned \in {"True", "False"}
         /\ returned = "True" <=> (completed = AllStages /\ output_file \in files)
         /\ returned = "True" <=> error = ""

\* C5 witness: every stage completed, the output file is missing after
\* the compilation, and the run returned False
C5_Witness ==
    /\ pc = "done"
    /\ completed = AllStages
    /\ output_file \notin files
    /\ returned = "False"

(***************************************************************************)
(* Properties of _generate_pdf_report                                      *)
(***************************************************************************)
PdfReturned == pc = "compiled" /\ case_details.report_format = "pdf"

\* the chart images written while the pages of pdf_pages were made
ChartsWritten ==
    UNION {ChartEffect(pdf_pages[j].stock, pdf_pages[j].chart).written : j \in DOMAIN pdf_pages}

\* C6, as stated: whenever _generate_pdf_report returns and no removal
\* failed, none of the per-ticker PDFs and none of the chart images
\* written during the call still exists, wherever chart generation raised.
C6_AsClaimed ==
    (PdfReturned /\ ~remove_failed) =>
        /\ ChartsWritten \cap files = {}
        /\ (Range(pdf_files) \ {MergedPdf}) \cap files = {}

PageStocks(pages) == [j \in DOMAIN pages |-> pages[j].stock]

ClueStocks(clues) == [j \in DOMAIN clues |-> clues[j][1]]

\* C7: a chart failure never leaves _add_charts_to_pdf: the ticker's page
\* gets the error note in place of the missing charts, its PDF is written,
\* the later tickers are processed, and the merged PDF receives one
\* document per ticker of the AnalysisSet.
C7_ChartFaultIsolation ==
    /\ error # "chart generation raised"
    /\ \A j \in DOMAIN pdf_pages :
         /\ pdf_pages[j].chart # "ok" => pdf_pages[j].note /\ pdf_pages[j].images < 2
         /\ pdf_pages[j].chart = "ok" => ~pdf_pages[j].note /\ pdf_pages[j].images = 2
    /\ pc = "pdf" =>
         /\ PageStocks(pdf_pages) = SubSeq(ClueStocks(analyzed_clues), 1, i - 1)
         /\ \A j \in DOMAIN pdf_pages : PdfFile(pdf_pages[j].stock) \in files
         /\ pdf_files = [j \in DOMAIN pdf_pages |-> PdfFile(pdf_pages[j].stock)]
    /\ PdfReturned => PageStocks(merged_pdf) = ClueStocks(analyzed_clues)

\* C7 witness: the PDF report was merged after the charts of a ticker
\* failed and a later ticker was still processed
C7_Witness ==
    /\ PdfReturned
    /\ \E j, m \in DOMAIN merged_pdf :
         /\ j < m
         /\ merged_pdf[j].chart # "ok"
         /\ merged_pdf[j].note

(***************************************************************************)
(* Properties of analyze_stock                                             *)
(***************************************************************************)
IsConstantSeries(pd) == \A t \in DOMAIN pd : pd[t].Close = pd[1].Close

IsIncreasingSeries(pd) == \A t \in DOMAIN pd : t > 1 => pd[t].Close > pd[t - 1].Close

\* C9: for a constant-price series longer than 20 bars, Daily Return is 0
\* from the second bar on, volatility is 0, UpperBand = LowerBand = close
\* and BB_Gap = 0 wherever the 20-bar window is full, ROC is 0 from the
\* 13th bar on, and Sharpe ratio and RSI are undefined (NaN), not clamped.
C9_ConstantSeries ==
    (apc = "done" /\ IsConstantSeries(price_data) /\ Len(price_data) > BBWindow) =>
        LET c == Num(price_data[1].Close)
            r == indicators.price_data
        IN /\ \A t \in 2..Len(price_data) : r.DailyReturn[t] = Num(0)
           /\ indicators.volatility = "zero"
           /\ \A t \in BBWindow..Len(price_data) :
                /\ SurdIsRat(r.UpperBand[t], c)
                /\ SurdIsRat(r.LowerBand[t], c)
                /\ SurdIsRat(BB_Gap(price_data)[t], Num(0))
           /\ indicators.avg_bb_gap = "zero"
           /\ \A t \in (ROCPeriods + 1)..Len(price_data) : r.ROC[t] = Num(0)
           /\ indicators.sharpe_ratio = "nan"
           /\ \A t \in 1..Len(price_data) : IsNaN(r.RSI[t])
           /\ IsNaN(indicators.rsi)

\* C9 witness: a constant series of more than 20 bars has been analyzed
C9_Witness ==
    /\ apc = "done"
    /\ IsConstantSeries(price_data)
    /\ Len(price_data) > BBWindow

\* C10: for a strictly increasing series of at least 15 bars the RSI at
\* the final bar is exactly 100: the average loss of the last window is 0,
\* the average gain is positive, x/0 gives RSI = 100; latest_price is the
\* final close.
C10_RisingSeries ==
    (apc = "done" /\ IsIncreasingSeries(price_data) /\ Len(price_data) >= RSIWindow + 1) =>
        /\ Last(Loss(price_data)) = Num(0)
        /\ FLess(Num(0), Last(Gain(price_data)))
        /\ indicators.rsi = Num(100)
        /\ FLess(Num(70), indicators.rsi)
        /\ indicators.latest_price = Num(price_data[Len(price_data)].Close)

\* C10 witness: a strictly increasing series of at least 15 bars whose
\* daily steps are not all equal has been analyzed
C10_Witness ==
    /\ apc = "done"
    /\ IsIncreasingSeries(price_data)
    /\ Len(price_data) >= RSIWindow + 1
    /\ \E t \in 3..Len(price_data) :
         price_data[t].Close - price_data[t - 1].Close
           # price_data[2].Close - price_data[1].Close

\* the two analyzed series agree on their first t bars
Agree(t) == \A j \in 1..t : price_data[j] = other_data[j]

\* the latest scalars of a result are its series' values at the final bar
LatestAtFinalBar(data, ind) ==
    LET n == Len(data)
    IN /\ ind.latest_price = ind.price_data.Close[n]
       /\ ind.latest_price = Num(data[n].Close)
       /\ ind.macd = ind.macd_data.MACD[n]
       /\ ind.macd_signal = ind.macd_data.Signal[n]
       /\ ind.upper_band = ind.price_data.UpperBand[n]
       /\ ind.lower_band = ind.price_data.LowerBand[n]
       /\ ind.rsi = ind.price_data.RSI[n]
       /\ ind.atr = ATR(data)[n]
       /\ ind.latest_roc = ind.price_data.ROC[n]

\* C11: no look-ahead.  Whenever two analyzed series agree on bars 0..t,
\* every per-bar indicator series (Daily Return, SMA20, UpperBand,
\* LowerBand, RSI, True Range, ATR, ROC, MACD, Signal) has the same value
\* at bar t in both results; and every latest scalar (latest_price, macd,
\* macd_signal, upper_band, lower_band, rsi, atr, latest_roc) is the value
\* of its series at the final bar.
C11_NoLookAhead ==
    apc = "both" =>
        LET sma1 == SMA20(price_data)
            sma2 == SMA20(other_data)
            tr1  == TrueRange(price_data)
            tr2  == TrueRange(other_data)
            atr1 == ATR(price_data)
            atr2 == ATR(other_data)
            a    == indicators
            b    == other_indicators
            n    == IF Len(price_data) < Len(other_data) THEN Len(price_data)
                    ELSE Len(other_data)
        IN /\ \A t \in 1..n :
                Agree(t) =>
                    /\ a.price_data.Close[t] = b.price_data.Close[t]
                    /\ a.price_data.DailyReturn[t] = b.price_data.DailyReturn[t]
                    /\ sma1[t] = sma2[t]
                    /\ a.price_data.UpperBand[t] = b.price_data.UpperBand[t]
                    /\ a.price_data.LowerBand[t] = b.price_data.LowerBand[t]
                    /\ a.price_data.RSI[t] = b.price_data.RSI[t]
                    /\ tr1[t] = tr2[t]
                    /\ atr1[t] = atr2[t]
                    /\ a.price_data.ROC[t] = b.price_data.ROC[t]
                    /\ a.macd_data.MACD[t] = b.macd_data.MACD[t]
                    /\ a.macd_data.Signal[t] = b.macd_data.Signal[t]
           /\ LatestAtFinalBar(price_data, a)
           /\ LatestAtFinalBar(other_data, b)

\* C11 witness: two analyzed series agree on at least 20 bars, so that the
\* bands are defined on the common stretch, differ at the next bar, and
\* their latest MACD values differ
C11_Witness ==
    /\ apc = "both"
    /\ \E t \in BBWindow..(Len(other_data) - 1) :
         /\ t < Len(price_data)
         /\ Agree(t)
         /\ price_data[t + 1] # other_data[t + 1]
         /\ indicators.price_data.UpperBand[t] # SurdNaN
         /\ ~IsNaN(indicators.price_data.ROC[t])
    /\ indicators.macd # other_indicators.macd

\* y follows the recursion of an average of span `span` on x:
\*   y[0] = x[0],  (span + 1) * y[t] = 2 * x[t] + (span - 1) * y[t-1]
FollowsRecursion(y, x, span) ==
    /\ Len(y) = Len(x)
    /\ y[1] = x[1]
    /\ \A t \in 2..Len(y) :
         /\ y[t].exp = x[t].exp
         /\ IntScale(y[t].num, span + 1)
              = IntAdd(IntScale(x[t].num, 2), IntScale(y[t - 1].num, (span - 1) * ExactDen))

\* C12: each average follows EMA[0] = x[0], EMA[t] = a*x[t] + (1-a)*EMA[t-1]
\* with a = 2/(span+1): spans 12 and 26 on the closes, span 9 on MACD, and
\* MACD is their difference; on a two-bar series [p0, p1] the span-12
\* average at bar 1 is (2*p1 + 11*p0)/13; MACD and Signal are exactly 0 at
\* the first bar of every series.
C12_EmaRecursion ==
    apc = "done" =>
        LET x    == ExactClose(price_data)
            e12  == exp12(price_data)
            e26  == exp26(price_data)
            macd == indicators.macd_data.MACD
            sig  == indicators.macd_data.Signal
        IN /\ FollowsRecursion(e12, x, 12)
           /\ FollowsRecursion(e26, x, 26)
           /\ FollowsRecursion(sig, macd, 9)
           /\ \A t \in 1..Len(price_data) :
                IntAdd(macd[t].num, e26[t].num) = e12[t].num
           /\ Len(price_data) = 2 =>
                /\ e12[2].exp = 1
                /\ IntScale(e12[2].num, 13)
                     = IntOf((2 * price_data[2].Close + 11 * price_data[1].Close) * ExactDen)
           /\ IsZero(macd[1])
           /\ IsZero(sig[1])

\* C12 witness: a two-bar series with two different closes has been
\* analyzed; its MACD and Signal have left 0 at the second bar
C12_Witness ==
    /\ apc = "done"
    /\ Len(price_data) = 2
    /\ price_data[1].Close # price_data[2].Close
    /\ ~IsZero(indicators.macd)
    /\ ~IsZero(indicators.macd_signal)

EarlierStages == {"load_config", "collect_evidence", "analyze_clues"}

\* C13: in every run compile_case_file is invoked only after the
\* configuration has been validated and gathering and analysis have
\* completed, and only with report_format pdf or txt; the failure
\* "Unsupported report format" is never reached; and as long as
\* compile_case_file has not been invoked, in particular when an earlier
\* stage has failed, no file has been written.
C13_CompileLast ==
    /\ "compile_case_file" \in calls =>
         /\ EarlierStages \subseteq completed
         /\ case_details.report_format \in {"pdf", "txt"}
    /\ error # "Unsupported report format"
    /\ (error # "" /\ ~(EarlierStages \subseteq completed)) =>
         "compile_case_file" \notin calls
    /\ "compile_case_file" \notin calls => files = {}

\* C13 witness: compile_case_file has been invoked after the three earlier
\* stages and has written a report file
C13_Witness ==
    /\ "compile_case_file" \in calls
    /\ EarlierStages \subseteq completed
    /\ case_details.report_format \in {"pdf", "txt"}
    /\ output_file # NoFile
    /\ output_file \in files

====
